---- MODULE Spec2Model ----
(***************************************************************************)
(* A model of the MedShare unified API (src/app.py): the start-up model    *)
(* selection and dictionary load, the text normalizers, the term corrector *)
(* and the three request handlers.                                         *)
(*                                                                         *)
(* A Python string is a sequence of characters; a character is a one-      *)
(* element name such as "a" or "5", or an ASCII name for a character that  *)
(* is not ASCII: "(R)" U+00AE, "(TM)" U+2122, "Rx" U+211E, "(C)" U+00A9,   *)
(* "U+FB02" the ligature fl.                                               *)
(***************************************************************************)
EXTENDS Integers, Sequences, FiniteSets, TLC

\* ------------------------------------------------------------------ bounds

\* Longest enumerated string (in characters) of an AI field value or of an
\* argument of a normalizer.
MaxLen == 2

\* Longest enumerated list of models the provider offers at start-up.
MaxModels == 2

\* Number of request slots that are served concurrently.
MaxReqs == 2

\* ------------------------------------------------------- python strings

RECURSIVE Concat(_)
\* The concatenation of a sequence of strings.
Concat(ss) == IF ss = <<>> THEN <<>> ELSE Head(ss) \o Concat(Tail(ss))

\* The strings over alphabet A of length at most n.
StringsUpTo(A, n) == UNION {[1..k -> A] : k \in 0..n}

\* Lower/upper-case pairs of the letters used by the model.
CasePairs ==
    { <<"a","A">>, <<"b","B">>, <<"c","C">>, <<"d","D">>, <<"e","E">>,
      <<"f","F">>, <<"g","G">>, <<"l","L">>, <<"m","M">>, <<"n","N">>,
      <<"o","O">>, <<"t","T">> }

LowerLetters == {p[1] : p \in CasePairs}
UpperLetters == {p[2] : p \in CasePairs}

\* str.isalpha() of one character ([a-zA-Z] for the characters modelled; the
\* ligature is a letter for Python but not for the class [a-zA-Z]).
IsAsciiLetter(c) == c \in LowerLetters \cup UpperLetters

\* Characters str.strip() removes and \s matches.
Whitespace == {" ", "\t"}

\* str.lower() of one character: always one character here.
LowerChar(c) ==
    IF c \in UpperLetters THEN (CHOOSE p \in CasePairs : p[2] = c)[1] ELSE c

\* str.upper() of one character: a string, since the full Unicode case mapping
\* of the ligature U+FB02 is the two letters "FL".
UpperChar(c) ==
    IF c = "U+FB02" THEN <<"F", "L">>
    ELSE IF c \in LowerLetters THEN << (CHOOSE p \in CasePairs : p[1] = c)[2] >>
    ELSE <<c>>

\* str.lower()
Lower(s) == [i \in 1..Len(s) |-> LowerChar(s[i])]

\* str.upper()
Upper(s) == Concat([i \in 1..Len(s) |-> UpperChar(s[i])])

\* re.sub(r'[class]', '', s) and str.replace(c, ""): drop the characters in D.
Remove(s, D) == SelectSeq(s, LAMBDA c : c \notin D)

\* str.replace(a, b) for single characters a and b.
Replace(s, a, b) == [i \in 1..Len(s) |-> IF s[i] = a THEN b ELSE s[i]]

RECURSIVE LStrip(_)
LStrip(s) == IF s # <<>> /\ Head(s) \in Whitespace THEN LStrip(Tail(s)) ELSE s

RECURSIVE RStrip(_)
RStrip(s) ==
    IF s # <<>> /\ s[Len(s)] \in Whitespace
    THEN RStrip(SubSeq(s, 1, Len(s) - 1)) ELSE s

\* str.strip()
Strip(s) == RStrip(LStrip(s))

\* Cased characters (the ligature U+FB02 is a lower-case letter).
IsCased(c) == IsAsciiLetter(c) \/ c = "U+FB02"

\* str.title(): a cased character that follows an uncased one is title-cased
\* (the ligature to "Fl"), any other lower-cased.
Title(s) ==
    Concat([i \in 1..Len(s) |->
        IF i = 1 \/ ~IsCased(s[i-1])
        THEN (IF s[i] = "U+FB02" THEN <<"F", "l">> ELSE UpperChar(s[i]))
        ELSE <<LowerChar(s[i])>>])

\* ------------------------------------------------------------ json values

\* A JSON value as json.loads returns it: a string (its characters), null, a
\* number (its digits) or a list (its items, each an opaque rendering).
Str(s)  == [t |-> "str",  v |-> s]
Null    == [t |-> "null", v |-> <<>>]
Num(d)  == [t |-> "num",  v |-> d]
List(l) == [t |-> "list", v |-> l]

\* Python truthiness of a JSON value: "", None, 0 and [] are falsy.
Truthy(x) ==
    CASE x.t = "str"  -> x.v # <<>>
      [] x.t = "null" -> FALSE
      [] x.t = "num"  -> x.v # <<"0">>
      [] x.t = "list" -> x.v # <<>>

\* The sentinel "Not Detected".
NotDetected == <<"N","o","t"," ","D","e","t","e","c","t","e","d">>

\* What a normalizer gives: a string, or the exception re.sub raises on a
\* value that is no string.
Ok(s)     == [ok |-> TRUE,  s |-> s, exc |-> ""]
Raise(e)  == [ok |-> FALSE, s |-> <<>>, exc |-> e]

TypeErrorText == "expected string or bytes-like object"

\* ------------------------------------------------------------ normalizers

SymbolChars == {"(R)", "(TM)", "Rx", "(C)", "*"}

\* clean_text_value, lines 77-80.
clean_text_value(text) ==
    IF ~Truthy(text) \/ text = Str(NotDetected) THEN Ok(<<>>)
    ELSE IF text.t # "str" THEN Raise(TypeErrorText)
    ELSE Ok(Strip(Remove(text.v, SymbolChars)))

DateChars == {"0","1","2","3","4","5","6","7","8","9","/",".","-"}

\* clean_date, lines 82-84.
clean_date(text) ==
    IF ~Truthy(text) \/ text = Str(NotDetected) THEN Ok(<<>>)
    ELSE IF text.t # "str" THEN Raise(TypeErrorText)
    ELSE Ok(SelectSeq(text.v, LAMBDA c : c \in DateChars))

\* clean_strength, lines 86-89, of a string.
clean_strength(text) ==
    IF text = <<>> \/ text = NotDetected THEN <<>>
    ELSE Upper(Replace(Replace(Remove(Lower(text), {" "}), "o", "0"), "l", "1"))

\* ---------------------------------------------------------- term corrector

\* The Damerau-Levenshtein (optimal string alignment) distance symspellpy
\* measures between a and b.
EditDistance(a, b) ==
    LET Min(x, y) == IF x < y THEN x ELSE y
        d[i \in 0..Len(a), j \in 0..Len(b)] ==
            IF i = 0 THEN j
            ELSE IF j = 0 THEN i
            ELSE LET sub == d[i-1, j-1] + (IF a[i] = b[j] THEN 0 ELSE 1)
                     one == Min(Min(d[i-1, j] + 1, d[i, j-1] + 1), sub)
                 IN  IF i > 1 /\ j > 1 /\ a[i] = b[j-1] /\ a[i-1] = b[j]
                     THEN Min(one, d[i-2, j-2] + 1)
                     ELSE one
    IN  d[Len(a), Len(b)]

\* max_dictionary_edit_distance and max_edit_distance, lines 61 and 72.
MaxEditDistance == 2

\* sym_spell.lookup(clean, Verbosity.CLOSEST, max_edit_distance=2): the terms of
\* the dictionary at the smallest distance from clean, if that is at most 2.
\* All entries have count 1, so the order among them is the library's.
Lookup(dict, clean) ==
    {w \in dict :
        /\ EditDistance(clean, w) <= MaxEditDistance
        /\ \A u \in dict : EditDistance(clean, w) <= EditDistance(clean, u)}

\* fix_spelling, lines 69-75: the set of values it can return (one value unless
\* several dictionary terms are equally close, where suggestions[0] is any of them).
fix_spelling(dict, raw_name) ==
    IF raw_name = <<>> \/ Len(raw_name) < 3 THEN {raw_name}
    ELSE LET clean == Lower(Strip(SelectSeq(raw_name,
                          LAMBDA c : IsAsciiLetter(c) \/ c \in Whitespace)))
             suggestions == Lookup(dict, clean)
         IN  IF suggestions # {} THEN {Title(t) : t \in suggestions}
             ELSE {Title(raw_name)}

\* ------------------------------------------------------- start-up inputs

\* A model identifier is the sequence of its segments, so that the test
\* 'flash' in m.name is the test that "flash" is one of them.

\* active_model = None
None == <<>>

\* 'gemini-pro-vision', line 39.
NotFoundDefault == <<"gemini-", "pro-vision">>

\* 'gemini-1.5-flash', line 44.
ExceptFallback == <<"gemini-1.5-", "flash">>

\* Models the provider may list, each with its supported generation methods.
ProviderModels ==
    { [name |-> <<"models/", "gemini-", "pro">>,
       supported_generation_methods |-> {"generateContent", "countTokens"}],
      [name |-> <<"models/", "gemini-1.5-", "flash">>,
       supported_generation_methods |-> {"generateContent", "countTokens"}],
      [name |-> <<"models/", "gemini-2.0-", "flash", "-lite">>,
       supported_generation_methods |-> {"generateContent"}],
      [name |-> <<"models/", "embedding-", "flash">>,
       supported_generation_methods |-> {"embedContent"}] }

\* What genai.list_models() does: it yields the models of a list in order and
\* then either ends or raises (no credential, no network, a failed page).
Listings ==
    [models : StringsUpTo(ProviderModels, MaxModels), raises : BOOLEAN]

\* Listings of the request-level specifications: one with a match, one
\* without, one that fails.
FewListings ==
    { [models |-> << CHOOSE m \in ProviderModels : m.name[3] = "pro",
                     CHOOSE m \in ProviderModels : m.name[2] = "gemini-1.5-" >>,
       raises |-> FALSE],
      [models |-> << CHOOSE m \in ProviderModels : m.name[3] = "pro" >>,
       raises |-> FALSE],
      [models |-> <<>>, raises |-> TRUE] }

\* Contents of medicine_list.txt after the download step, as its lines: no
\* file or an empty one, and two word lists.
WordFiles ==
    { <<>>,
      << <<"B","a","n","e","t">>, <<" ","b","o","n","e"," ">> >>,
      << <<"b","a","n","e","t">>, <<"b","a","n","e","d">>, <<>> >> }

\* ------------------------------------------------------------- start-up

RECURSIVE FirstFlash(_)
\* The loop of lines 34-38 over the models yielded: the name of the first
\* model that supports generateContent and has 'flash' in its name, or None.
FirstFlash(models) ==
    IF models = <<>> THEN None
    ELSE LET m == Head(models)
         IN  IF /\ "generateContent" \in m.supported_generation_methods
                /\ \E i \in 1..Len(m.name) : m.name[i] = "flash"
             THEN m.name
             ELSE FirstFlash(Tail(models))

\* A selection with the fallback of the except branch in both cases.
SelectModel_OneFallback(listing) ==
    LET found == FirstFlash(listing.models)
    IN  IF found # None THEN [active_model |-> found, model |-> found]
        ELSE [active_model |-> None, model |-> ExceptFallback]

\* Lines 32-45: the pair (active_model, name of the model object).
SelectModel(listing) ==
    LET found == FirstFlash(listing.models)
    IN  IF found # None THEN [active_model |-> found, model |-> found]
        ELSE IF listing.raises
             THEN [active_model |-> None, model |-> ExceptFallback]
             ELSE [active_model |-> NotFoundDefault, model |-> NotFoundDefault]

\* Lines 61-67: one dictionary entry per line, stripped and lower-cased.
LoadDictionary(lines) == {Lower(Strip(lines[i])) : i \in 1..Len(lines)}

\* ------------------------------------------------------------ AI replies

\* The keys the handlers read from the reply.
BoxKeys == {"medicineName", "strength", "expiryDate", "manufacturingDate"}
ReplyKeys == BoxKeys \cup {"medicines"}

\* A key the reply does not have (used only to build objects).
Absent == [t |-> "absent", v |-> <<>>]

\* The JSON object with the given value at each key, without the absent ones.
Object(f) == [k \in {x \in DOMAIN f : f[x] # Absent} |-> f[k]]

EmptyObject == [k \in {} |-> Null]

\* What json.loads returns: an object (a dict) or something that is none
\* (a list, a string, a number, null).
Parsed(kind, obj) == [kind |-> kind, obj |-> obj]
NoDocument == Parsed("none", EmptyObject)

\* The text of a reply is a sequence of pieces: the code-fence markers (three
\* backquotes followed by json: "fence-json"; three backquotes: "fence"),
\* whitespace, a piece "json" that is the serialization of a JSON document
\* (val), and a piece "junk" of text that is not JSON.
FenceJson == [tok |-> "fence-json", val |-> NoDocument]
Fence     == [tok |-> "fence",      val |-> NoDocument]
Newline   == [tok |-> "space",      val |-> NoDocument]
Junk      == [tok |-> "junk",    val |-> NoDocument]
Json(doc) == [tok |-> "json",    val |-> doc]

\* What model.generate_content and response.text give: a text, or an exception.
Reply(text) == [ok |-> TRUE, text |-> text]
AIFailure   == [ok |-> FALSE, text |-> <<>>]
NoReply     == [ok |-> FALSE, text |-> << Junk >>]

\* The shapes in which a model wraps a document d.
Wrappings(d) ==
    { << Json(d) >>,
      << FenceJson, Newline, Json(d), Newline, Fence >>,
      << Fence, Json(d), Fence, Newline >>,
      << Newline, Json(d) >>,
      << Junk, Newline, FenceJson, Json(d), Fence >>,
      << Json(d), Newline, Json(d) >> }

\* Replies without any document.
BareReplies == { <<>>, << Junk >>, << FenceJson, Newline, Fence >> }

\* Every result of the AI call when the model answers with one of the
\* documents: a text that wraps one, a text without any, or an exception.
Results(documents) ==
    { Reply(t) : t \in (UNION {Wrappings(d) : d \in documents}) \cup BareReplies }
    \cup { AIFailure }

\* Values the AI gives for a free-text field.
TextAlphabet == {"a", " ", "(R)"}
TextValues ==
    {Str(s) : s \in StringsUpTo(TextAlphabet, MaxLen)}
    \cup { Absent, Null, Num(<<"0">>), Num(<<"5">>), Str(NotDetected),
           Str(<<"b","a","n","e","t","(R)">>) }

\* Values the AI gives for a date field; the last is "Exp: 12/2025!!".
DateAlphabet == {"1", "/", "x"}
DateValues ==
    {Str(s) : s \in StringsUpTo(DateAlphabet, MaxLen)}
    \cup { Absent, Num(<<"5">>), Str(NotDetected),
           Str(<<"E","x","p",":"," ","1","2","/","2","0","2","5","!","!">>) }

FewTextValues == { Absent, Str(<<"5","0","0","m","g">>) }
FewDateValues == { Absent, Str(<<"0","1","/","2","4">>) }

\* Two lists of medicines, each item an opaque rendering of {name, strength}.
MedicineLists ==
    { List(<<>>), List(<< "{name: panadol, strength: 500mg}" >>),
      List(<< "{name: Brufen, strength: 400mg}", "{name: amoxil, strength: }" >>) }

\* Documents of the box prompt: an object of the four fields, or a list.
BoxDocuments ==
    { Parsed("object", Object([medicines |-> Absent, medicineName |-> n,
                               strength |-> s, expiryDate |-> e,
                               manufacturingDate |-> m])) :
        n \in TextValues, s \in FewTextValues, e \in DateValues,
        m \in FewDateValues }
    \cup { Parsed("none", EmptyObject) }


\* A few documents, for the specifications that interleave requests.
FewDocuments ==
    { Parsed("object", Object([medicines |-> m, medicineName |-> n,
                               strength |-> Absent, expiryDate |-> e,
                               manufacturingDate |-> Absent])) :
        m \in {Absent, CHOOSE l \in MedicineLists : Len(l.v) = 2},
        n \in {Str(<<"b","a","n","e","t","(R)">>), Num(<<"5">>)},
        e \in {Absent} }
    \cup { Parsed("none", EmptyObject) }

FewResults ==
    { Reply(<< FenceJson, Newline, Json(d), Newline, Fence >>) : d \in FewDocuments }
    \cup { Reply(<< Junk >>), AIFailure }

\* Documents of the prescription prompt.
PrescriptionDocuments ==
    { Parsed("object", Object([medicines |-> m, medicineName |-> n,
                               strength |-> Absent, expiryDate |-> Absent,
                               manufacturingDate |-> Absent])) :
        m \in MedicineLists \cup {Absent, Null, Str(<<"a">>)},
        n \in {Absent, Str(<<"a">>)} }
    \cup { Parsed("none", EmptyObject) }


\* --------------------------------------------------------------- responses

EmptyMap == [k \in {} |-> <<>>]

\* jsonify(...) with its status code. kind tells which body it is: "home"
\* {"status": ...}, "error" {"error": error}, "prescription" {"status",
\* "medicines"}, "box" {"status", "fields", "detections"}.
Response(code, kind, status, error, medicines, fields, detections) ==
    [code |-> code, kind |-> kind, status |-> status, error |-> error,
     medicines |-> medicines, fields |-> fields, detections |-> detections]

NoResponse == Response(0, "", "", "", Null, EmptyMap, EmptyMap)

\* Line 98.
HomeResponse ==
    Response(200, "home", "MedShare API is Live on Render!", "", Null,
             EmptyMap, EmptyMap)

\* Lines 104 and 136.
NoImageResponse == Response(400, "error", "", "No image", Null, EmptyMap, EmptyMap)

\* Lines 128-129 and 167-168.
ServerError(e) == Response(500, "error", "", e, Null, EmptyMap, EmptyMap)

\* The texts of the exceptions the handlers can meet.
ImageErrorText == "cannot identify image file"
UpstreamErrorText == "generate_content failed"
JsonErrorText == "Expecting value"
AttributeErrorText == "object has no attribute 'get'"

\* --------------------------------------------------------- reply parsing

RECURSIVE StripPieces(_)
\* str.strip() of a text in pieces: whitespace off both ends.
StripPieces(t) ==
    IF t # <<>> /\ Head(t) = Newline THEN StripPieces(Tail(t))
    ELSE IF t # <<>> /\ t[Len(t)] = Newline
         THEN StripPieces(SubSeq(t, 1, Len(t) - 1))
         ELSE t

\* Lines 117 and 148: both fence markers replaced by nothing, then strip().
StripFences(text) ==
    StripPieces(SelectSeq(SelectSeq(text, LAMBDA p : p # FenceJson),
                          LAMBDA p : p # Fence))

\* json.loads: the document, when the text is the serialization of one and
\* nothing else; an exception otherwise.
json_loads(clean_text) ==
    IF Len(clean_text) = 1 /\ clean_text[1].tok = "json"
    THEN [ok |-> TRUE, data |-> clean_text[1].val]
    ELSE [ok |-> FALSE, data |-> NoDocument]

\* data.get(key, default) of a dict.
Get(obj, key, default) == IF key \in DOMAIN obj THEN obj[key] ELSE default

\* --------------------------------------------------- predict_prescription

\* The prescription handler without the inner try of lines 119-123.
PrescriptionFromText_NoGuard(text) ==
    LET parsed == json_loads(StripFences(text))
    IN  IF ~parsed.ok THEN ServerError(JsonErrorText)
        ELSE IF parsed.data.kind # "object" THEN ServerError(AttributeErrorText)
        ELSE Response(200, "prescription", "success", "",
                      Get(parsed.data.obj, "medicines", List(<<>>)),
                      EmptyMap, EmptyMap)

\* Lines 117-126: the response once generate_content has returned text.
PrescriptionFromText(text) ==
    LET parsed == json_loads(StripFences(text))
        medicines_raw ==
            IF parsed.ok /\ parsed.data.kind = "object"
            THEN Get(parsed.data.obj, "medicines", List(<<>>))
            ELSE List(<<>>)
    IN  Response(200, "prescription", "success", "", medicines_raw,
                 EmptyMap, EmptyMap)

\* Lines 116-129: the response from the result of the AI call.
PrescriptionAfterCall(ai) ==
    IF ~ai.ok THEN ServerError(UpstreamErrorText)
    ELSE PrescriptionFromText(ai.text)

\* ------------------------------------------------------------ predict_box

\* The keys with EXP_Date read from the manufacturing date.
FieldOf_Crossed ==
    [medicineName |-> "medicineName", strength |-> "strength",
     expiryDate |-> "expiryDate", manufacturingDate |-> "manufacturingDate",
     Medicine_Name |-> "medicineName", Strength |-> "strength",
     EXP_Date |-> "manufacturingDate", MFG_Date |-> "manufacturingDate"]

\* The key of final_response and the key of the reply it is computed from.
FieldOf ==
    [medicineName |-> "medicineName", strength |-> "strength",
     expiryDate |-> "expiryDate", manufacturingDate |-> "manufacturingDate",
     Medicine_Name |-> "medicineName", Strength |-> "strength",
     EXP_Date |-> "expiryDate", MFG_Date |-> "manufacturingDate"]

ResponseKeys == DOMAIN FieldOf

\* The normalizer lines 151-161 apply to a field of the reply.
Normalize(field, value) ==
    IF field \in {"medicineName", "strength"} THEN clean_text_value(value)
    ELSE clean_date(value)

\* Lines 151-161: final_response, each entry a string or the exception.
FinalResponse(obj) ==
    [k \in ResponseKeys |-> Normalize(FieldOf[k], Get(obj, FieldOf[k], Str(<<>>)))]

\* No filter: every entry is kept.
Filtered_KeepAll(final_response) == final_response

\* Line 163: the entries with a non-empty value.
Filtered(final_response) ==
    [k \in {x \in DOMAIN final_response : final_response[x] # <<>>}
       |-> final_response[k]]

\* Detections built from the camel-case keys alone.
Detections_PrimaryKeys(filtered_response) ==
    [k \in DOMAIN filtered_response \cap
           {"medicineName", "strength", "expiryDate", "manufacturingDate"}
       |-> filtered_response[k]]

\* The detections of the response, line 165: the same map as the fields.
Detections(filtered_response) == filtered_response

\* The box handler with the parse guard of the prescription handler: a reply
\* that does not parse gives a success with no field.
BoxFromText_Guarded(text) ==
    LET parsed == json_loads(StripFences(text))
        obj == IF parsed.ok /\ parsed.data.kind = "object"
               THEN parsed.data.obj ELSE EmptyObject
        final == [k \in {"medicineName", "strength", "expiryDate",
                         "manufacturingDate", "Medicine_Name", "Strength",
                         "EXP_Date", "MFG_Date"} |->
                    IF k \in {"medicineName", "strength", "Medicine_Name", "Strength"}
                    THEN clean_text_value(Get(obj,
                            IF k \in {"medicineName", "Medicine_Name"}
                            THEN "medicineName" ELSE "strength", Str(<<>>)))
                    ELSE clean_date(Get(obj,
                            IF k \in {"expiryDate", "EXP_Date"}
                            THEN "expiryDate" ELSE "manufacturingDate", Str(<<>>)))]
    IN  IF \E k \in DOMAIN final : ~final[k].ok
        THEN ServerError(TypeErrorText)
        ELSE LET kept == [k \in {x \in DOMAIN final : final[x].s # <<>>}
                            |-> final[k].s]
             IN  Response(200, "box", "success", "", Null, kept, kept)

\* Lines 148-165: the response once generate_content has returned text.
BoxFromText(text) ==
    LET parsed == json_loads(StripFences(text))
    IN  IF ~parsed.ok THEN ServerError(JsonErrorText)
        ELSE IF parsed.data.kind # "object" THEN ServerError(AttributeErrorText)
        ELSE LET final == FinalResponse(parsed.data.obj)
             IN  IF \E k \in ResponseKeys : ~final[k].ok
                 THEN ServerError(TypeErrorText)
                 ELSE LET filtered_response ==
                              Filtered([k \in ResponseKeys |-> final[k].s])
                      IN  Response(200, "box", "success", "", Null,
                                   filtered_response,
                                   Detections(filtered_response))

\* Lines 147-168: the response from the result of the AI call.
BoxAfterCall(ai) ==
    IF ~ai.ok THEN ServerError(UpstreamErrorText)
    ELSE BoxFromText(ai.text)

\* ------------------------------------------------------------------ state

VARIABLES
    phase,         \* "boot" while the module body runs, then "serving"
    listing,       \* what genai.list_models() did at start-up
    active_model,  \* the global active_model
    model,         \* the name the global model was built with
    sym_spell,     \* the words of the global sym_spell
    selections,    \* how many times the model was selected
    pc,            \* per request slot: "idle", "calling" (blocked in
                   \* generate_content) or "done" (response produced)
    req,           \* per request slot: the request and what was done for it
    resp,          \* per request slot: the response
    cs             \* an argument of clean_strength and its results

vars == <<phase, listing, active_model, model, sym_spell, selections,
          pc, req, resp, cs>>

globals == <<active_model, model, sym_spell>>

Reqs == 1..MaxReqs

\* A request: its route, whether it carries the file field 'image', whether
\* its bytes are an image PIL can open, the result of the AI call, and the
\* steps taken for it.
Request(route, hasImage, decodable, ai, steps) ==
    [route |-> route, hasImage |-> hasImage, decodable |-> decodable,
     ai |-> ai, steps |-> steps]

NoRequest == Request("", FALSE, FALSE, NoReply, <<>>)

NoStrength == [stage |-> 0, text |-> <<>>, once |-> <<>>, twice |-> <<>>]

\* The process before the module body has run.
InitProcess ==
    /\ phase = "boot"
    /\ listing = [models |-> <<>>, raises |-> FALSE]
    /\ active_model = None
    /\ model = None
    /\ sym_spell = {}
    /\ selections = 0
    /\ pc = [r \in Reqs |-> "idle"]
    /\ req = [r \in Reqs |-> NoRequest]
    /\ resp = [r \in Reqs |-> NoResponse]

Init ==
    /\ InitProcess
    /\ cs = NoStrength

\* Arguments of clean_strength: the strings over an alphabet with a digit, the
\* look-alike letters in both cases, a space, other letters and the ligature,
\* and the strings "500 MG" and "5O0mg" and the sentinel.
StrengthAlphabet == {"5", "O", "o", "l", " ", "m", "G", "U+FB02"}
StrengthInputs ==
    StringsUpTo(StrengthAlphabet, MaxLen)
    \cup { <<"5","0","0"," ","M","G">>, <<"5","O","0","m","g">>, NotDetected }

InitStrength ==
    /\ InitProcess
    /\ cs \in {[stage |-> 0, text |-> t, once |-> <<>>, twice |-> <<>>] :
                 t \in StrengthInputs}

\* ---------------------------------------------------------------- actions

\* The module body, lines 23-67: the model selection and the dictionary load.
Startup(listings, files) ==
    /\ phase = "boot"
    /\ \E l \in listings, f \in files :
         /\ listing' = l
         /\ active_model' = SelectModel(l).active_model
         /\ model' = SelectModel(l).model
         /\ sym_spell' = LoadDictionary(f)
    /\ selections' = selections + 1
    /\ phase' = "serving"
    /\ UNCHANGED <<pc, req, resp, cs>>

\* GET /, lines 96-98.
Home(r) ==
    /\ phase = "serving"
    /\ pc[r] = "idle"
    /\ req' = [req EXCEPT ![r] = Request("/", FALSE, FALSE, NoReply, <<>>)]
    /\ resp' = [resp EXCEPT ![r] = HomeResponse]
    /\ pc' = [pc EXCEPT ![r] = "done"]
    /\ UNCHANGED <<phase, listing, globals, selections, cs>>

\* The handler without the check of the file field: a request without an
\* image fails in the decoding.
Begin_NoCheck(r, route, hasImage, decodable) ==
    /\ phase = "serving"
    /\ pc[r] = "idle"
    /\ IF ~hasImage \/ ~decodable
       THEN /\ req' = [req EXCEPT ![r] =
                          Request(route, hasImage, decodable, NoReply,
                                  <<"Image.open">>)]
            /\ resp' = [resp EXCEPT ![r] = ServerError(ImageErrorText)]
            /\ pc' = [pc EXCEPT ![r] = "done"]
       ELSE /\ req' = [req EXCEPT ![r] =
                          Request(route, hasImage, decodable, NoReply,
                                  <<"Image.open", "exif_transpose">>)]
            /\ resp' = [resp EXCEPT ![r] = NoResponse]
            /\ pc' = [pc EXCEPT ![r] = "calling"]
    /\ UNCHANGED <<phase, listing, globals, selections, cs>>

\* Lines 104-108 and 136-140 of a request to route: the check of the file
\* field, then the decoding of the image, up to the call of the AI model.
Begin(r, route, hasImage, decodable) ==
    /\ phase = "serving"
    /\ pc[r] = "idle"
    /\ IF ~hasImage
       THEN /\ req' = [req EXCEPT ![r] =
                          Request(route, hasImage, decodable, NoReply, <<>>)]
            /\ resp' = [resp EXCEPT ![r] = NoImageResponse]
            /\ pc' = [pc EXCEPT ![r] = "done"]
       ELSE IF ~decodable
       THEN /\ req' = [req EXCEPT ![r] =
                          Request(route, hasImage, decodable, NoReply,
                                  <<"Image.open">>)]
            /\ resp' = [resp EXCEPT ![r] = ServerError(ImageErrorText)]
            /\ pc' = [pc EXCEPT ![r] = "done"]
       ELSE /\ req' = [req EXCEPT ![r] =
                          Request(route, hasImage, decodable, NoReply,
                                  <<"Image.open", "exif_transpose">>)]
            /\ resp' = [resp EXCEPT ![r] = NoResponse]
            /\ pc' = [pc EXCEPT ![r] = "calling"]
    /\ UNCHANGED <<phase, listing, globals, selections, cs>>

\* POST /predict-prescription, lines 101-114.
PredictPrescriptionBegin(r) ==
    \E hasImage \in BOOLEAN, decodable \in BOOLEAN :
        Begin(r, "/predict-prescription", hasImage, decodable)

\* POST /predict-prescription, lines 116-129: generate_content returns or
\* raises, and the response is made.
PredictPrescriptionFinish(r, results) ==
    /\ pc[r] = "calling"
    /\ req[r].route = "/predict-prescription"
    /\ \E ai \in results :
         /\ req' = [req EXCEPT ![r].ai = ai,
                               ![r].steps = @ \o <<"generate_content">>]
         /\ resp' = [resp EXCEPT ![r] = PrescriptionAfterCall(ai)]
    /\ pc' = [pc EXCEPT ![r] = "done"]
    /\ UNCHANGED <<phase, listing, globals, selections, cs>>

\* POST /predict-box, lines 133-145.
PredictBoxBegin(r) ==
    \E hasImage \in BOOLEAN, decodable \in BOOLEAN :
        Begin(r, "/predict-box", hasImage, decodable)

\* A box handler that adds the name it was given to the dictionary.
PredictBoxFinish_Learns(r, results) ==
    /\ pc[r] = "calling"
    /\ req[r].route = "/predict-box"
    /\ \E ai \in results :
         /\ req' = [req EXCEPT ![r].ai = ai,
                               ![r].steps = @ \o <<"generate_content">>]
         /\ resp' = [resp EXCEPT ![r] = BoxAfterCall(ai)]
         /\ sym_spell' =
              IF BoxAfterCall(ai).code = 200
                 /\ "medicineName" \in DOMAIN BoxAfterCall(ai).fields
              THEN sym_spell \cup {Lower(BoxAfterCall(ai).fields["medicineName"])}
              ELSE sym_spell
    /\ pc' = [pc EXCEPT ![r] = "done"]
    /\ UNCHANGED <<phase, listing, active_model, model, selections, cs>>

\* POST /predict-box, lines 147-168.
PredictBoxFinish(r, results) ==
    /\ pc[r] = "calling"
    /\ req[r].route = "/predict-box"
    /\ \E ai \in results :
         /\ req' = [req EXCEPT ![r].ai = ai,
                               ![r].steps = @ \o <<"generate_content">>]
         /\ resp' = [resp EXCEPT ![r] = BoxAfterCall(ai)]
    /\ pc' = [pc EXCEPT ![r] = "done"]
    /\ UNCHANGED <<phase, listing, globals, selections, cs>>

\* The response is sent and the worker takes the next request.
Deliver(r) ==
    /\ pc[r] = "done"
    /\ pc' = [pc EXCEPT ![r] = "idle"]
    /\ req' = [req EXCEPT ![r] = NoRequest]
    /\ resp' = [resp EXCEPT ![r] = NoResponse]
    /\ UNCHANGED <<phase, listing, globals, selections, cs>>

\* clean_strength applied to the argument.
CleanStrength ==
    /\ cs.stage = 0
    /\ cs' = [cs EXCEPT !.stage = 1, !.once = clean_strength(cs.text)]
    /\ UNCHANGED <<phase, listing, globals, selections, pc, req, resp>>

\* clean_strength applied to its own result.
CleanStrengthAgain ==
    /\ cs.stage = 1
    /\ cs' = [cs EXCEPT !.stage = 2, !.twice = clean_strength(cs.once)]
    /\ UNCHANGED <<phase, listing, globals, selections, pc, req, resp>>

\* Lines 96-168: the response of a finished request, from the request alone.
HandlerResult(q) ==
    IF q.route = "/" THEN HomeResponse
    ELSE IF ~q.hasImage THEN NoImageResponse
    ELSE IF ~q.decodable THEN ServerError(ImageErrorText)
    ELSE IF q.route = "/predict-prescription" THEN PrescriptionAfterCall(q.ai)
    ELSE BoxAfterCall(q.ai)

\* ---------------------------------------------------------- specifications

\* The service: start-up, then requests of all routes served concurrently.
Next ==
    \/ Startup(FewListings, WordFiles)
    \/ \E r \in Reqs :
         \/ Home(r)
         \/ PredictPrescriptionBegin(r)
         \/ PredictPrescriptionFinish(r, FewResults)
         \/ PredictBoxBegin(r)
         \/ PredictBoxFinish(r, FewResults)
         \/ Deliver(r)

Spec == Init /\ [][Next]_vars

\* Start-up under every listing, then requests served one at a time.
NextStartup ==
    \/ Startup(Listings, WordFiles)
    \/ Home(1)
    \/ PredictPrescriptionBegin(1)
    \/ PredictPrescriptionFinish(1, FewResults)
    \/ PredictBoxBegin(1)
    \/ PredictBoxFinish(1, FewResults)
    \/ Deliver(1)

SpecStartup == Init /\ [][NextStartup]_vars

\* One box request at a time, under every reply to the box prompt (and one
\* word list: predict_box does not read the dictionary).
NextBox ==
    \/ Startup(FewListings, {f \in WordFiles : Len(f) = 2})
    \/ PredictBoxBegin(1)
    \/ PredictBoxFinish(1, Results(BoxDocuments))
    \/ Deliver(1)

SpecBox == Init /\ [][NextBox]_vars

\* One prescription request at a time, under every reply to its prompt.
NextPrescription ==
    \/ Startup(FewListings, WordFiles)
    \/ PredictPrescriptionBegin(1)
    \/ PredictPrescriptionFinish(1, Results(PrescriptionDocuments))
    \/ Deliver(1)

SpecPrescription == Init /\ [][NextPrescription]_vars

\* clean_strength on every argument, twice.
NextStrength == CleanStrength \/ CleanStrengthAgain

SpecStrength == InitStrength /\ [][NextStrength]_vars

\* ------------------------------------------------------------------ claims

\* The requests of a route that have been answered.
Done(r, route) == pc[r] = "done" /\ req[r].route = route

\* The document a reply text parses to, with whether it parses.
ParsedReply(q) == json_loads(StripFences(q.ai.text))

\* A request whose image was decoded and whose AI call returned text.
GotText(r) == req[r].hasImage /\ req[r].decodable /\ req[r].ai.ok

\* C1: on both POST routes a request without the file field 'image' is
\* answered 400 with the body {"error": "No image"}, and neither the image
\* decoding nor generate_content has run for it.
C1_NoImage ==
    \A r \in Reqs :
        ( /\ pc[r] = "done"
          /\ req[r].route \in {"/predict-prescription", "/predict-box"}
          /\ ~req[r].hasImage )
        => /\ resp[r].code = 400
           /\ resp[r].kind = "error"
           /\ resp[r].error = "No image"
           /\ req[r].steps = <<>>

\* Both routes have answered a request without an image.
C1_Witness ==
    \E r1, r2 \in Reqs :
        /\ Done(r1, "/predict-prescription") /\ ~req[r1].hasImage
        /\ Done(r2, "/predict-box") /\ ~req[r2].hasImage

\* C2: when the reply parses to an object whose four fields are strings or
\* missing, predict_box succeeds and its map has a key exactly when the
\* normalized value of the key's field is not empty; a field that is missing,
\* empty or "Not Detected" gives no key.
C2_KeysIffNonEmpty ==
    ( /\ Done(1, "/predict-box") /\ GotText(1)
      /\ ParsedReply(req[1]).ok
      /\ ParsedReply(req[1]).data.kind = "object"
      /\ \A f \in BoxKeys : Get(ParsedReply(req[1]).data.obj, f, Str(<<>>)).t = "str" )
    => LET obj == ParsedReply(req[1]).data.obj
       IN  /\ resp[1].code = 200 /\ resp[1].kind = "box"
           /\ \A k \in ResponseKeys :
                LET raw == Get(obj, FieldOf[k], Str(<<>>))
                    norm == IF FieldOf[k] \in {"medicineName", "strength"}
                            THEN clean_text_value(raw).s ELSE clean_date(raw).s
                IN  /\ (k \in DOMAIN resp[1].fields) <=> (norm # <<>>)
                    /\ (FieldOf[k] \notin DOMAIN obj \/ raw.v = <<>> \/ raw.v = NotDetected)
                         => k \notin DOMAIN resp[1].fields
           /\ DOMAIN resp[1].fields \subseteq ResponseKeys

\* A success where one field is the sentinel, one is missing, one normalizes
\* to nothing and one is kept.
C2_Witness ==
    /\ Done(1, "/predict-box") /\ GotText(1)
    /\ ParsedReply(req[1]).ok
    /\ ParsedReply(req[1]).data.kind = "object"
    /\ LET obj == ParsedReply(req[1]).data.obj
       IN  /\ Get(obj, "medicineName", Null) = Str(NotDetected)
           /\ "strength" \notin DOMAIN obj
           /\ Get(obj, "expiryDate", Null) = Str(<<"x", "x">>)
           /\ "manufacturingDate" \in DOMAIN obj
    /\ DOMAIN resp[1].fields = {"manufacturingDate", "MFG_Date"}

\* C3: in every success response of predict_box the maps 'fields' and
\* 'detections' are equal.
C3_FieldsEqualDetections ==
    (Done(1, "/predict-box") /\ resp[1].code = 200)
    => /\ DOMAIN resp[1].fields = DOMAIN resp[1].detections
       /\ \A k \in DOMAIN resp[1].fields : resp[1].fields[k] = resp[1].detections[k]

\* A success response of predict_box with all eight keys.
C3_Witness ==
    /\ Done(1, "/predict-box") /\ resp[1].code = 200
    /\ DOMAIN resp[1].fields = ResponseKeys

\* C4: in predict_prescription, once the AI call returned text, a reply that
\* does not parse as JSON gives 200 with an empty list of medicines, and a
\* reply that parses to an object gives 200 with its 'medicines' value as it
\* is (the empty list when the key is missing).
C4_ParseFailureIsEmptyList ==
    (Done(1, "/predict-prescription") /\ GotText(1))
    => LET parsed == ParsedReply(req[1])
       IN  /\ resp[1].code = 200 /\ resp[1].kind = "prescription"
           /\ resp[1].status = "success"
           /\ ~parsed.ok => resp[1].medicines = List(<<>>)
           /\ (parsed.ok /\ parsed.data.kind = "object") =>
                resp[1].medicines =
                    (IF "medicines" \in DOMAIN parsed.data.obj
                     THEN parsed.data.obj["medicines"] ELSE List(<<>>))

\* A prescription request answered after a reply of junk between fences.
C4_Witness ==
    /\ Done(1, "/predict-prescription") /\ GotText(1)
    /\ req[1].ai.text = << FenceJson, Newline, Fence >>
    /\ resp[1].code = 200

\* A prescription request answered with the two medicines of the reply.
C4_WitnessParsed ==
    /\ Done(1, "/predict-prescription") /\ GotText(1)
    /\ ParsedReply(req[1]).ok
    /\ Len(resp[1].medicines.v) = 2

\* The step of predict_box that fails for a request with an image, as the
\* text of its exception; "" when no step fails.
BoxFailure(q) ==
    IF ~q.decodable THEN ImageErrorText
    ELSE IF ~q.ai.ok THEN UpstreamErrorText
    ELSE IF ~ParsedReply(q).ok THEN JsonErrorText
    ELSE IF ParsedReply(q).data.kind # "object" THEN AttributeErrorText
    ELSE IF \E f \in BoxKeys :
               LET x == Get(ParsedReply(q).data.obj, f, Str(<<>>))
               IN  x.t # "str" /\ Truthy(x)
         THEN TypeErrorText
    ELSE ""

\* C5: in predict_box, with an image present, a failure of the decoding, of
\* the AI call, of the JSON parse or of the normalization gives 500 with
\* {"error": <exception text>}; a reply that does not parse never gives a
\* success response.
C5_BoxFailuresAre500 ==
    (Done(1, "/predict-box") /\ req[1].hasImage)
    => /\ BoxFailure(req[1]) # "" =>
             /\ resp[1].code = 500
             /\ resp[1].kind = "error"
             /\ resp[1].error = BoxFailure(req[1])
       /\ (req[1].decodable /\ req[1].ai.ok /\ ~ParsedReply(req[1]).ok)
             => resp[1].code # 200

\* predict_box answered 500 to a reply that is a document followed by another.
C5_Witness ==
    /\ Done(1, "/predict-box") /\ GotText(1)
    /\ Len(req[1].ai.text) = 3
    /\ req[1].ai.text[1].tok = "json" /\ req[1].ai.text[3].tok = "json"
    /\ resp[1].code = 500

\* The positions of a list of models that support generateContent and have
\* 'flash' in the name.
Matches(models) ==
    {i \in 1..Len(models) :
        /\ "generateContent" \in models[i].supported_generation_methods
        /\ "flash" \in {models[i].name[j] : j \in 1..Len(models[i].name)}}

\* The model the claim expects with fb as the one fallback identifier.
ExpectedModel(l, fb) ==
    IF Matches(l.models) # {}
    THEN l.models[CHOOSE i \in Matches(l.models) :
                     \A j \in Matches(l.models) : i <= j].name
    ELSE fb

\* C6 as claimed: the first matching model is selected, and there is one
\* fallback identifier that is used both when no model matches and when the
\* enumeration fails; the selection is made once.
C6_SingleFallback ==
    phase = "serving" =>
        /\ selections = 1
        /\ \E fb \in {NotFoundDefault, ExceptFallback} :
             /\ model = ExpectedModel(listing, fb)
             /\ \A raises \in BOOLEAN :
                  SelectModel([listing EXCEPT !.raises = raises]).model
                    = ExpectedModel([listing EXCEPT !.raises = raises], fb)

\* C6 as amended: the first matching model is selected; when the enumeration
\* ends without a match the model is 'gemini-pro-vision', and when it fails
\* before a match the model is 'gemini-1.5-flash'; the selection is made once.
C6_TwoFallbacks ==
    phase = "serving" =>
        /\ selections = 1
        /\ model = ExpectedModel(listing,
                      IF listing.raises THEN <<"gemini-1.5-", "flash">>
                      ELSE <<"gemini-", "pro-vision">>)

\* A start-up that passed over a model named flash without generateContent
\* and one with generateContent not named flash before it selected one.
C6_Witness ==
    /\ phase = "serving"
    /\ Len(listing.models) >= 2
    /\ Matches(listing.models) # {}
    /\ 1 \notin Matches(listing.models)
    /\ model = listing.models[2].name

\* C7: once start-up has finished no step of a handler changes the selected
\* model or the dictionary, and the response of a request is the one its own
\* input and its own AI reply give, whatever the other requests do.
C7_HandlersWriteNothingShared ==
    [][ phase = "serving" =>
          /\ globals' = globals
          /\ \A r \in Reqs :
               pc'[r] = "done" => resp'[r] = HandlerResult(req'[r]) ]_vars

\* Two requests in flight at once, one answered while the other still waits
\* for the AI model.
C7_Witness ==
    \E r1, r2 \in Reqs :
        /\ pc[r1] = "calling" /\ req[r1].route = "/predict-box"
        /\ Done(r2, "/predict-prescription")
        /\ req[r2].steps = <<"Image.open", "exif_transpose", "generate_content">>

\* C8: clean_strength applied twice gives what it gives applied once.
C8_Idempotent == cs.stage = 2 => cs.twice = cs.once

\* C9: in every success response of predict_box each field is under both of
\* its keys or under neither, with the same value, and no other key appears.
C9_BothSpellings ==
    (Done(1, "/predict-box") /\ resp[1].code = 200)
    => LET f == resp[1].fields
       IN  /\ DOMAIN f \subseteq
                {"medicineName", "Medicine_Name", "strength", "Strength",
                 "expiryDate", "EXP_Date", "manufacturingDate", "MFG_Date"}
           /\ \A p \in { <<"medicineName", "Medicine_Name">>,
                         <<"strength", "Strength">>,
                         <<"expiryDate", "EXP_Date">>,
                         <<"manufacturingDate", "MFG_Date">> } :
                /\ (p[1] \in DOMAIN f) <=> (p[2] \in DOMAIN f)
                /\ p[1] \in DOMAIN f => f[p[1]] = f[p[2]]

\* A success response with a name and two different dates, no strength.
C9_Witness ==
    /\ Done(1, "/predict-box") /\ resp[1].code = 200
    /\ DOMAIN resp[1].fields =
         {"medicineName", "Medicine_Name", "expiryDate", "EXP_Date",
          "manufacturingDate", "MFG_Date"}
    /\ resp[1].fields["expiryDate"] # resp[1].fields["manufacturingDate"]

\* C10: the prescription route returns the medicines as the AI gave them, and
\* the medicine name predict_box returns has passed through fix_spelling.
C10_BoxNameCorrected ==
    \A r \in Reqs :
        /\ (Done(r, "/predict-prescription") /\ GotText(r)
              /\ ParsedReply(req[r]).ok /\ ParsedReply(req[r]).data.kind = "object")
           => resp[r].medicines =
                 Get(ParsedReply(req[r]).data.obj, "medicines", List(<<>>))
        /\ (Done(r, "/predict-box") /\ resp[r].code = 200
              /\ "medicineName" \in DOMAIN resp[r].fields)
           => resp[r].fields["medicineName"] \in
                 fix_spelling(sym_spell,
                    clean_text_value(Get(ParsedReply(req[r]).data.obj,
                                         "medicineName", Str(<<>>))).s)

====
